---- MODULE Spec2Model ----
(***************************************************************************)
(* The file processing pipeline of the Filemanager3 backend:               *)
(*   services/pipeline.py   FileProcessingPipeline (the orchestrator)      *)
(*   services/ingestion.py  FileIngestionService (worker pool, backends)   *)
(*   services/text_extraction.py, services/ocr.py (the remote stages)      *)
(*   services/clean_text.py CleanTextService (pure text functions)         *)
(*                                                                         *)
(* A Python str is a sequence of Unicode code points (integers); None is   *)
(* a record with present = FALSE; a dict is a function on its key set.     *)
(***************************************************************************)
EXTENDS Integers, Sequences, FiniteSets, TLC

(***************************************************************************)
(* Bounds of the model.                                                    *)
(***************************************************************************)
\* longest text a remote stage (Tika, Tesseract) returns
MaxLen == 2
\* longest storage_backends list of a direct ingestion request
MaxBackends == 2

\* the longest text given to assess_quality and detect_duplicates
MaxQualityLen == 3

\* the number of requests to the auth routes and to JWTBearer
MaxRequests == 3

(***************************************************************************)
(* Generic helpers on sequences and dicts.                                 *)
(***************************************************************************)
Range(f) == {f[x] : x \in DOMAIN f}

\* the element of a one-element set.  Only({F(x) : x \in {e}}) is F(e) with
\* e evaluated once, however often F uses it
Only(S) == CHOOSE x \in S : TRUE

SeqsUpTo(S, n) == UNION {[1..k -> S] : k \in 0..n}

\* {} : the empty dict
EmptyDict == [k \in {} |-> {}]

\* d.update(e)
DictUpdate(d, e) ==
    [k \in (DOMAIN d) \cup (DOMAIN e) |-> IF k \in DOMAIN e THEN e[k] ELSE d[k]]

\* d[key] = value
DictSet(d, key, value) ==
    [k \in (DOMAIN d) \cup {key} |-> IF k = key THEN value ELSE d[k]]

(***************************************************************************)
(* clean_text.py : CleanTextService                                        *)
(***************************************************************************)
\* the characters the remote stages return in the model:
\* ' ' (32), 'B' (66), e-acute (233)
Chars == {32, 66, 233}

Texts == SeqsUpTo(Chars, MaxLen)

\* the class [\x20-\x7E\n\r\t] of remove_noise
IsPrintable(c) == (c >= 32 /\ c <= 126) \/ c \in {9, 10, 13}

\* the class \s of a str pattern
IsSpace(c) == c \in {9, 10, 11, 12, 13, 28, 29, 30, 31, 32, 133, 160}

\* re.sub(r"\s+", " ", text)
RECURSIVE CollapseSpace(_)
CollapseSpace(s) ==
    IF s = <<>> THEN <<>>
    ELSE IF IsSpace(Head(s))
         THEN IF Len(s) > 1 /\ IsSpace(s[2])
              THEN CollapseSpace(Tail(s))
              ELSE <<32>> \o CollapseSpace(Tail(s))
         ELSE <<Head(s)>> \o CollapseSpace(Tail(s))

RECURSIVE LStrip(_)
LStrip(s) ==
    IF s # <<>> /\ IsSpace(Head(s)) THEN LStrip(Tail(s)) ELSE s

RECURSIVE RStrip(_)
RStrip(s) ==
    IF s # <<>> /\ IsSpace(s[Len(s)]) THEN RStrip(SubSeq(s, 1, Len(s) - 1)) ELSE s

\* str.strip()
Strip(s) == Only({RStrip(l) : l \in {LStrip(s)}})

\* ftfy.fix_text on the characters of the model: control characters are
\* removed, the mojibake of e-acute (195, 169) is decoded, the rest is kept
IsControl(c) == (c >= 0 /\ c <= 8) \/ c = 11 \/ (c >= 14 /\ c <= 31) \/ c = 127

RECURSIVE FixMojibake(_)
FixMojibake(s) ==
    IF s = <<>> THEN <<>>
    ELSE IF Len(s) > 1 /\ s[1] = 195 /\ s[2] = 169
         THEN <<233>> \o FixMojibake(Tail(Tail(s)))
         ELSE <<Head(s)>> \o FixMojibake(Tail(s))

IsNotControl(c) == ~IsControl(c)

FtfyFixText(text) == Only({SelectSeq(m, IsNotControl) : m \in {FixMojibake(text)}})

\* an except clause that returns "" in place of the text
fix_encoding_dropping(text, raises) == IF raises THEN <<>> ELSE FtfyFixText(text)

\* fix_encoding: `raises` is whether ftfy raises inside the try
fix_encoding(text, raises) == IF raises THEN text ELSE FtfyFixText(text)

remove_noise(text) ==
    Only({Strip(c) : c \in {CollapseSpace(p) : p \in {SelectSeq(text, IsPrintable)}}})

\* unicodedata.normalize("NFKC", c) of one character of the model: the
\* no-break space becomes a space, the ligature fi becomes "fi"
NFKC(c) ==
    IF c = 160 THEN <<32>>
    ELSE IF c = 64257 THEN <<102, 105>>
    ELSE <<c>>

\* str.swapcase() of one character
SwapCase(c) ==
    IF (c >= 65 /\ c <= 90) \/ (c >= 192 /\ c <= 222 /\ c # 215) THEN c + 32
    ELSE IF (c >= 97 /\ c <= 122) \/ (c >= 224 /\ c <= 254 /\ c # 247) THEN c - 32
    ELSE c

\* str.lower() of one character (ASCII and Latin-1 capitals)
Lower(c) ==
    IF (c >= 65 /\ c <= 90) \/ (c >= 192 /\ c <= 222 /\ c # 215) THEN c + 32 ELSE c

RECURSIVE NormalizeChars(_)
NormalizeChars(s) ==
    IF s = <<>> THEN <<>>
    ELSE LET n == NFKC(Head(s))
         IN  [k \in 1..Len(n) |-> Lower(n[k])] \o NormalizeChars(Tail(s))

normalize_text(text) == NormalizeChars(text)

clean_text(text, raises) ==
    Only({normalize_text(n) : n \in {remove_noise(f) : f \in {fix_encoding(text, raises)}}})

(***************************************************************************)
(* Scores are exact fractions <<numerator, denominator>> in lowest terms.  *)
(***************************************************************************)
Abs(n) == IF n < 0 THEN -n ELSE n

Max(a, b) == IF a >= b THEN a ELSE b

RECURSIVE GCD(_, _)
GCD(a, b) == IF b = 0 THEN a ELSE Only({GCD(b, r) : r \in {a % b}})

Frac(n, d) ==
    Only({<<a \div g, b \div g>> : <<a, b, g>> \in {<<x, y, GCD(Abs(x), y)>> : x \in {n}, y \in {d}}})

FracAdd(x, y) ==
    Only({Frac(a[1] * b[2] + b[1] * a[2], a[2] * b[2]) : a \in {x}, b \in {y}})

FracLeq(x, y) == x[1] * y[2] <= y[1] * x[2]

FracLess(x, y) == x[1] * y[2] < y[1] * x[2]

Zero == Frac(0, 1)

One == Frac(1, 1)

\* text.split("\n")
RECURSIVE SplitLines(_)
SplitLines(s) ==
    IF \A k \in 1..Len(s) : s[k] # 10 THEN <<s>>
    ELSE LET p == CHOOSE k \in 1..Len(s) : s[k] = 10 /\ \A m \in 1..(k - 1) : s[m] # 10
         IN  <<SubSeq(s, 1, p - 1)>> \o SplitLines(SubSeq(s, p + 1, Len(s)))

\* len(text.split()): the number of maximal runs of non-whitespace
WordCount(s) ==
    Cardinality({k \in 1..Len(s) : ~IsSpace(s[k]) /\ (k = 1 \/ IsSpace(s[k - 1]))})

\* difflib.SequenceMatcher.find_longest_match without junk: the longest
\* common block of a[alo..ahi) and b[blo..bhi) (0-based, half open), the one
\* starting earliest in a and then earliest in b; <<i, j, 0>> if none
Blocks(a, b, alo, ahi, blo, bhi) ==
    {m \in (alo..(ahi - 1)) \X (blo..(bhi - 1)) \X (1..Max(ahi - alo, 0)) :
        /\ m[1] + m[3] <= ahi
        /\ m[2] + m[3] <= bhi
        /\ \A k \in 0..(m[3] - 1) : a[m[1] + k + 1] = b[m[2] + k + 1]}

Better(m, n) ==
    \/ m[3] > n[3]
    \/ m[3] = n[3] /\ m[1] < n[1]
    \/ m[3] = n[3] /\ m[1] = n[1] /\ m[2] <= n[2]

find_longest_match(a, b, alo, ahi, blo, bhi) ==
    LET S == Blocks(a, b, alo, ahi, blo, bhi)
    IN  IF S = {} THEN <<alo, blo, 0>>
        ELSE CHOOSE m \in S : \A n \in S : Better(m, n)

\* the total size of SequenceMatcher.get_matching_blocks
RECURSIVE MatchCount(_, _, _, _, _, _)
MatchCount(a, b, alo, ahi, blo, bhi) ==
    Only({IF m[3] = 0 THEN 0
          ELSE MatchCount(a, b, alo, m[1], blo, m[2]) + m[3]
               + MatchCount(a, b, m[1] + m[3], ahi, m[2] + m[3], bhi) :
            m \in {find_longest_match(a, b, alo, ahi, blo, bhi)}})

\* SequenceMatcher(None, a, b).ratio() : 2.0 * matches / length, 1.0 if length = 0
Ratio(a, b) ==
    IF Len(a) + Len(b) = 0 THEN One
    ELSE Frac(2 * MatchCount(a, b, 0, Len(a), 0, Len(b)), Len(a) + Len(b))

\* CleanTextService.__init__ : min_similarity = 0.9
DefaultMinSimilarity == Frac(9, 10)

\* ratio > self.min_similarity
IsDuplicate(ratio, min_similarity) == FracLess(min_similarity, ratio)

\* detect_duplicates: the dict keyed by "line_{i+1}-{j+1}", here <<i+1, j+1>>
LinePairs(lines) == {p \in (1..Len(lines)) \X (1..Len(lines)) : p[1] < p[2]}

DuplicatesOf(lines, min_similarity) ==
    LET ratio == [p \in LinePairs(lines) |-> Ratio(lines[p[1]], lines[p[2]])]
    IN  Only({[p \in {q \in DOMAIN r : IsDuplicate(r[q], min_similarity)} |-> r[p]] :
                r \in {ratio}})

detect_duplicates(text, min_similarity) ==
    Only({DuplicatesOf(lines, min_similarity) : lines \in {SplitLines(text)}})

EncodingScore(text, raises) ==
    LET fixed == fix_encoding(text, raises)
    IN  Frac(Max(Len(text), 1) - Abs(Len(fixed) - Len(text)), Max(Len(text), 1))

NoiseScore(text) == Frac(Len(remove_noise(text)), Max(Len(text), 1))

DuplicateScore(text, min_similarity) ==
    LET n == Max(Len(SplitLines(text)), 1)
    IN  Frac(n - Cardinality(DOMAIN detect_duplicates(text, min_similarity)), n)

StructureScore(text) ==
    LET line_count == Max(Len(SplitLines(text)), 1)
        word_count == WordCount(text)
    IN  IF word_count >= 10 * line_count THEN One
        ELSE Frac(word_count, 10 * line_count)

\* (e + n + d + s) / 4
Mean4(e, n, d, s) ==
    Only({Frac(sum[1], 4 * sum[2]) : sum \in {FracAdd(FracAdd(e, n), FracAdd(d, s))}})

\* assess_quality without its `if not text` branch
assess_quality_unguarded(text, raises, min_similarity) ==
    Only({[overall |-> Mean4(e, n, d, s), encoding |-> e, noise |-> n,
           duplicates |-> d, structure |-> s] :
             e \in {EncodingScore(text, raises)},
             n \in {NoiseScore(text)},
             d \in {DuplicateScore(text, min_similarity)},
             s \in {StructureScore(text)}})

\* assess_quality: the TextQualityScore
assess_quality(text, raises, min_similarity) ==
    IF text = <<>>
    THEN [overall |-> Zero, encoding |-> Zero, noise |-> Zero,
          duplicates |-> Zero, structure |-> Zero]
    ELSE Only({[overall |-> Mean4(e, n, d, s), encoding |-> e, noise |-> n,
                duplicates |-> d, structure |-> s] :
                  e \in {EncodingScore(text, raises)},
                  n \in {NoiseScore(text)},
                  d \in {DuplicateScore(text, min_similarity)},
                  s \in {StructureScore(text)}})

(***************************************************************************)
(* The state.                                                              *)
(***************************************************************************)
VARIABLES
    pc,            \* pc[i]: where process_file invocation i stands
    args,          \* args[i]: (file_data, file_name, content_type) of invocation i
    result,        \* result[i]: the FileProcessingResult of invocation i
    extracted,     \* extracted[i]: text_response.text of extract_text, None before
    ocr_result,    \* ocr_result[i]: the text of the OCR result, None if there is none
    calls,         \* calls[i]: how often each stage service was invoked, and on what
    tasks,         \* the work items submitted to the executor, with their responses
    executor,      \* the ThreadPoolExecutor: max_workers and the _shutdown flag
    shutdown_pc,   \* where the shutdown() coroutine stands
    client,        \* the API client that calls ingest_file directly
    op_call,       \* a call of one service method on its own: the method and its inputs
    op_result,     \* what that call has returned or raised, None before
    refresh_tokens,\* the rows of the table refresh_tokens
    auth_log,      \* the requests of the auth routes and of JWTBearer, with their answers
    upload         \* the request to POST /upload and how far its handler got

vars ==
    <<pc, args, result, extracted, ocr_result, calls, tasks, executor, shutdown_pc, client,
      op_call, op_result, refresh_tokens, auth_log, upload>>

op_vars == <<op_call, op_result>>

web_vars == <<refresh_tokens, auth_log, upload>>

pipeline_vars == <<pc, args, result, extracted, ocr_result, calls>>

\* the process_file invocations of the model
Invocations == {1, 2}

\* the API clients that call ingest_file themselves, once each: client 3
\* with any storage_backends list, client 4 with the default request
Clients == {3, 4}

ByteStrings == {"b1", "b2"}

FileNames == {"f1", "f2"}

ContentTypes == {"text/plain"}

\* Optional[str]
None == [present |-> FALSE, text |-> <<>>]

Some(t) == [present |-> TRUE, text |-> t]

\* the truth value of an Optional[str]: neither None nor ""
Truthy(content) == content.present /\ content.text # <<>>

\* ProcessingStage
INGESTION == "ingestion"

TEXT_EXTRACTION == "text_extraction"

OCR == "ocr"

CLEANING == "cleaning"

COMPLETED == "completed"

ProcessingStage == <<INGESTION, TEXT_EXTRACTION, OCR, CLEANING, COMPLETED>>

StageIndex(stage) == CHOOSE k \in 1..Len(ProcessingStage) : ProcessingStage[k] = stage

\* str(hash(file_data)): a function of the bytes, fixed within one process
Hash(file_data) == <<"hash", file_data>>

\* FileProcessingResult(file_id=..., stage=ProcessingStage.INGESTION); pydantic
\* copies the defaults {} of metadata and errors for every instance
FileProcessingResult(file_id, stage) ==
    [file_id |-> file_id, stage |-> stage, content |-> None,
     metadata |-> EmptyDict, errors |-> EmptyDict]

NoArgs == [file_data |-> "", file_name |-> "", content_type |-> ""]

NoResult == FileProcessingResult(<<"hash", "">>, INGESTION)

NoCalls == [ingest |-> 0, extract |-> 0, ocr |-> 0, clean |-> 0,
            ocr_arg |-> "", raised |-> "none", message |-> "", requests |-> <<>>]

\* the keys the Tika /meta route may return, and its answers
MetaKeys == {"Content-Type", "dc:title"}

TikaMetadata == UNION {[K -> {"tika"}] : K \in SUBSET MetaKeys}

\* the exceptions of the stages: the class and str(e)
SubmitError ==
    [type |-> "RuntimeError", message |-> "cannot schedule new futures after shutdown"]

TikaTextError == [type |-> "HTTPError", message |-> "PUT /tika failed"]

TikaMetaError == [type |-> "HTTPError", message |-> "PUT /meta failed"]

\* Image.open and pytesseract.image_to_string
OcrErrors ==
    {[type |-> "UnidentifiedImageError", message |-> "cannot identify image file"],
     [type |-> "TesseractError", message |-> "tesseract failed"]}

\* the classes above are all subclasses of Exception
ExceptionSubclasses ==
    {"RuntimeError", "HTTPError", "UnidentifiedImageError", "TesseractError"}

(***************************************************************************)
(* ingestion.py : FileIngestionService                                     *)
(***************************************************************************)
LOCAL_BACKEND == "local"

GOOGLE_DRIVE == "google_drive"

S3 == "s3"

StorageBackend == {LOCAL_BACKEND, GOOGLE_DRIVE, S3}

\* the ids the Drive API gives to created files; no ingestion id is one of them
RemoteIds == {101}

\* FileIngestionResponse(ingestion_id=..., status="queued", ...)
FileIngestionResponse(ingestion_id) ==
    [ingestion_id |-> ingestion_id, status |-> "queued",
     storage_locations |-> EmptyDict, presigned_urls |-> EmptyDict]

\* a work item of the executor: the arguments of _process_file, how far the
\* worker got with it, and what ingest_file returned to its caller
WorkItem(owner, ingestion_id, backends) ==
    [owner |-> owner, ingestion_id |-> ingestion_id, backends |-> backends,
     state |-> "queued", read |-> "pending", idx |-> 0, outcomes |-> <<>>, runs |-> 0,
     response |-> FileIngestionResponse(ingestion_id), returned |-> "pending"]

\* uuid.uuid4(): a fresh identifier
NewIngestionId == Len(tasks) + 1

Running == {t \in 1..Len(tasks) : tasks[t].state = "running"}

Queued == {t \in 1..Len(tasks) : tasks[t].state = "queued"}

\* asyncio runs one coroutine at a time and switches only where one
\* suspends: process_file suspends in the two requests of extract_text
\* (Tesseract and the cleaning are synchronous), ingest_file nowhere, and
\* executor.shutdown(wait=True) blocks the loop while it waits.
\* Holding is the set of coroutines in the middle of a synchronous stretch.
Holding ==
    {i \in Invocations : pc[i] \in {"ingestion", "ingest_return", "ocr", "cleaning"}}
        \cup {c \in Clients : client[c].pc = "in_call"}

MayRun(c) == shutdown_pc # "waiting" /\ Holding \subseteq {c}

(***************************************************************************)
(* ingest_file, called by process_file or directly by an API client.       *)
(* executor.submit raises RuntimeError once the executor is    *)
(* shut down; otherwise the work item is queued.  The worker threads run   *)
(* between the submit and the return of ingest_file.                       *)
(***************************************************************************)
\* an executor that goes on accepting work after shutdown
SubmitNeverRaises == FALSE

SubmitRaises == executor.shutdown

\* executor.submit(self._process_file, ingestion_id, request, response)
Submit(owner, backends) == Append(tasks, WorkItem(owner, NewIngestionId, backends))

\* return response: what the caller sees is the status at this moment
Return(t) == [tasks EXCEPT ![t].returned = tasks[t].response.status]

\* the work item ingest_file has submitted for `owner` and not yet returned
Pending(owner) ==
    {t \in 1..Len(tasks) : tasks[t].owner = owner /\ tasks[t].returned = "pending"}

(***************************************************************************)
(* _process_file on a worker thread                                        *)
(***************************************************************************)
\* a pool that starts a thread for every submitted work item
process_file_read_unbounded(t) ==
    /\ t \in Queued
    /\ \A u \in Queued : t <= u
    /\ \E read_ok \in BOOLEAN :
          tasks' = [tasks EXCEPT
              ![t].runs = @ + 1,
              ![t].read = IF read_ok THEN "ok" ELSE "failed",
              ![t].state = IF read_ok THEN "running" ELSE "done",
              ![t].response.status = IF read_ok THEN @ ELSE "failed"]
    /\ UNCHANGED <<pipeline_vars, executor, shutdown_pc, client, op_vars, web_vars>>

\* a pool that puts a work item whose read failed back on the queue, once
process_file_read_retrying(t) ==
    /\ t \in Queued
    /\ \A u \in Queued : t <= u
    /\ Cardinality(Running) < executor.max_workers
    /\ \E read_ok \in BOOLEAN :
          tasks' = [tasks EXCEPT
              ![t].runs = @ + 1,
              ![t].read = IF read_ok THEN "ok" ELSE "failed",
              ![t].state = IF read_ok THEN "running"
                           ELSE IF tasks[t].runs = 0 THEN "queued" ELSE "done",
              ![t].response.status = IF read_ok THEN @ ELSE "failed"]
    /\ UNCHANGED <<pipeline_vars, executor, shutdown_pc, client, op_vars, web_vars>>

\* a worker takes the oldest queued work item and reads the file content;
\* a failing read leaves through the outer except
\* a worker that reports completed as soon as the file content is read
process_file_read_completing(t) ==
    /\ t \in Queued
    /\ \A u \in Queued : t <= u
    /\ Cardinality(Running) < executor.max_workers
    /\ \E read_ok \in BOOLEAN :
          tasks' = [tasks EXCEPT
              ![t].runs = @ + 1,
              ![t].read = IF read_ok THEN "ok" ELSE "failed",
              ![t].state = IF read_ok THEN "running" ELSE "done",
              ![t].response.status = IF read_ok THEN "completed" ELSE "failed"]
    /\ UNCHANGED <<pipeline_vars, executor, shutdown_pc, client, op_vars, web_vars>>

\* _process_file up to the loop: the read of the file content
process_file_read(t) ==
    /\ t \in Queued
    /\ \A u \in Queued : t <= u
    /\ Cardinality(Running) < executor.max_workers
    /\ \E read_ok \in BOOLEAN :
          tasks' = [tasks EXCEPT
              ![t].runs = @ + 1,
              ![t].read = IF read_ok THEN "ok" ELSE "failed",
              ![t].state = IF read_ok THEN "running" ELSE "done",
              ![t].response.status = IF read_ok THEN @ ELSE "failed"]
    /\ UNCHANGED <<pipeline_vars, executor, shutdown_pc, client, op_vars, web_vars>>

\* the storage location recorded for a backend after its store call
StorageLocation(backend, ingestion_id, remote_id) ==
    IF backend = LOCAL_BACKEND THEN [kind |-> "local_path", id |-> ingestion_id]
    ELSE IF backend = GOOGLE_DRIVE THEN [kind |-> "drive_id", id |-> remote_id]
    ELSE [kind |-> "s3_uri", id |-> ingestion_id]

SupportsPresign(backend) == backend \in {S3, GOOGLE_DRIVE}

\* _generate_presigned_url(backend, ingestion_id, filename)
generate_presigned_url(backend, file_id) ==
    IF backend = S3 THEN [kind |-> "s3_get_object", id |-> file_id]
    ELSE IF backend = GOOGLE_DRIVE THEN [kind |-> "drive_download", id |-> file_id]
    ELSE [kind |-> "", id |-> file_id]

\* what one pass of the loop body can end in: the store call raises, the
\* presigned URL call raises (S3 only: the Drive URL is a format string),
\* or neither
Outcomes(backend) ==
    IF backend = S3 THEN {"stored", "store_failed", "presign_failed"}
    ELSE {"stored", "store_failed"}

\* a loop body that generates the presigned URL before the store call
StoreBackendPresignFirst(response, backend, outcome, remote_id) ==
    LET presigned == IF SupportsPresign(backend)
                     THEN [response EXCEPT !.presigned_urls =
                              DictSet(@, backend,
                                      generate_presigned_url(backend, response.ingestion_id))]
                     ELSE response
    IN  IF outcome = "store_failed" THEN presigned
        ELSE [presigned EXCEPT !.storage_locations =
                 DictSet(@, backend,
                         StorageLocation(backend, response.ingestion_id, remote_id))]

\* the response after one pass of the loop body for `backend`
StoreBackend(response, backend, outcome, remote_id) ==
    LET stored == [response EXCEPT !.storage_locations =
                      DictSet(@, backend,
                              StorageLocation(backend, response.ingestion_id, remote_id))]
    IN  IF outcome = "store_failed" THEN response
        ELSE IF outcome = "stored" /\ SupportsPresign(backend)
             THEN [stored EXCEPT !.presigned_urls =
                      DictSet(@, backend,
                              generate_presigned_url(backend, response.ingestion_id))]
             ELSE stored

\* a loop whose except clause is outside the `for`: a failing store ends it
AfterBackendAborting(item, outcome, remote_id) ==
    [item EXCEPT
        !.idx = IF outcome = "store_failed" THEN Len(item.backends) ELSE @ + 1,
        !.outcomes = Append(@, outcome),
        !.response = StoreBackend(@, item.backends[item.idx + 1], outcome, remote_id)]

\* the work item after one pass of the loop body: the except clause is inside
\* the `for`, so the loop goes on to the next backend whatever the outcome
AfterBackend(item, outcome, remote_id) ==
    [item EXCEPT
        !.idx = @ + 1,
        !.outcomes = Append(@, outcome),
        !.response = StoreBackend(@, item.backends[item.idx + 1], outcome, remote_id)]

\* one pass of `for backend in request.storage_backends`, its except included
process_file_backend(t) ==
    /\ t \in Running
    /\ tasks[t].idx < Len(tasks[t].backends)
    /\ \E outcome \in Outcomes(tasks[t].backends[tasks[t].idx + 1]), remote_id \in RemoteIds :
          tasks' = [tasks EXCEPT ![t] = AfterBackend(@, outcome, remote_id)]
    /\ UNCHANGED <<pipeline_vars, executor, shutdown_pc, client, op_vars, web_vars>>

\* a status that tells a partial failure: failed when some store call raised
process_file_completed_partial(t) ==
    /\ t \in Running
    /\ tasks[t].idx = Len(tasks[t].backends)
    /\ tasks' = [tasks EXCEPT
          ![t].state = "done",
          ![t].response.status =
              IF "store_failed" \in Range(tasks[t].outcomes) THEN "failed" ELSE "completed"]
    /\ UNCHANGED <<pipeline_vars, executor, shutdown_pc, client, op_vars, web_vars>>

\* response.status = "completed" after the loop
process_file_completed(t) ==
    /\ t \in Running
    /\ tasks[t].idx = Len(tasks[t].backends)
    /\ tasks' = [tasks EXCEPT ![t].state = "done", ![t].response.status = "completed"]
    /\ UNCHANGED <<pipeline_vars, executor, shutdown_pc, client, op_vars, web_vars>>

(***************************************************************************)
(* FileIngestionService.shutdown : self.executor.shutdown(wait=True)       *)
(***************************************************************************)
shutdown_call ==
    /\ shutdown_pc = "none"
    /\ Holding = {}
    /\ shutdown_pc' = "waiting"
    /\ executor' = [executor EXCEPT !.shutdown = TRUE]
    /\ UNCHANGED <<pipeline_vars, op_vars, web_vars, tasks, client>>

\* self.executor.shutdown(wait=False): shutdown returns at once
shutdown_return_nowait ==
    /\ shutdown_pc = "waiting"
    /\ shutdown_pc' = "done"
    /\ UNCHANGED <<pipeline_vars, op_vars, web_vars, tasks, executor, client>>

\* the workers drain the queue, then shutdown returns
shutdown_return ==
    /\ shutdown_pc = "waiting"
    /\ \A t \in 1..Len(tasks) : tasks[t].state = "done"
    /\ shutdown_pc' = "done"
    /\ UNCHANGED <<pipeline_vars, op_vars, web_vars, tasks, executor, client>>

(***************************************************************************)
(* ingest_file called by an API client                                     *)
(***************************************************************************)
\* FileIngestionRequest(file=upload_file): storage_backends defaults to [LOCAL]
DefaultBackends == <<LOCAL_BACKEND>>

BackendLists == SeqsUpTo(StorageBackend, MaxBackends)

RequestsOf(c) == IF c = 3 THEN BackendLists ELSE {DefaultBackends}

ingest_file_submit(c, backends) ==
    /\ MayRun(c)
    /\ client[c].pc = "idle"
    /\ IF SubmitRaises
       THEN /\ client' = [client EXCEPT ![c].pc = "raised"]
            /\ UNCHANGED tasks
       ELSE /\ client' = [client EXCEPT ![c].pc = "in_call"]
            /\ tasks' = Submit(c, backends)
    /\ UNCHANGED <<pipeline_vars, op_vars, web_vars, executor, shutdown_pc>>

ingest_file_return(c) ==
    /\ client[c].pc = "in_call"
    /\ tasks' = Return(CHOOSE t \in Pending(c) : TRUE)
    /\ client' = [client EXCEPT ![c].pc = "returned"]
    /\ UNCHANGED <<pipeline_vars, op_vars, web_vars, executor, shutdown_pc>>

(***************************************************************************)
(* pipeline.py : FileProcessingPipeline.process_file                       *)
(***************************************************************************)
\* result.stage = stage
SetStage(r, stage) == [r EXCEPT !.stage = stage]

\* a handler that catches only what extract_text catches
CaughtHTTPErrorOnly(type) == type = "HTTPError"

\* except Exception
Caught(type) == type \in ExceptionSubclasses

\* a handler that files every message under one fixed key
ExceptHandlerFixedKey(r, message) == [r EXCEPT !.errors = DictSet(@, "error", message)]

\* a handler that logs the exception and records nothing
ExceptHandlerSilent(r, message) == r

\* result.errors[result.stage.value] = str(e)
ExceptHandler(r, message) == [r EXCEPT !.errors = DictSet(@, r.stage, message)]

\* exception e is raised in the try block of invocation i while the code of
\* `stage` runs: the handler runs and process_file returns the result, or
\* the exception is not caught and leaves process_file
Raise(i, stage, e) ==
    /\ IF Caught(e.type)
       THEN /\ result' = [result EXCEPT ![i] = ExceptHandler(@, e.message)]
            /\ pc' = [pc EXCEPT ![i] = "returned"]
       ELSE /\ pc' = [pc EXCEPT ![i] = "propagated"]
            /\ UNCHANGED result
    /\ calls' = [calls EXCEPT ![i].raised = stage, ![i].message = e.message,
                              ![i].ingest = @ + (IF stage = INGESTION THEN 1 ELSE 0),
                              ![i].ocr = @ + (IF stage = OCR THEN 1 ELSE 0),
                              ![i].ocr_arg = IF stage = OCR THEN args[i].file_data ELSE @]

\* an OCR stage that runs whatever the extraction gave
AlwaysOCR(content) == TRUE

\* `if result.content is None`
NeedsOCRWhenAbsent(content) == ~content.present

\* `if not result.content`
NeedsOCR(content) == ~Truthy(content)

\* ocr_result.get("metadata", {}): the Tesseract result has no such key
OcrMetadata == EmptyDict

\* a result class whose metadata and errors default to one dict shared by
\* all instances: a new result starts with what the others have written
process_file_call_shared(i, file_data, file_name, content_type) ==
    /\ MayRun(i)
    /\ pc[i] = "idle"
    /\ args' = [args EXCEPT ![i] = [file_data |-> file_data, file_name |-> file_name,
                                    content_type |-> content_type]]
    /\ \E j \in Invocations \ {i} :
          result' = [result EXCEPT
                        ![i] = [FileProcessingResult(Hash(file_data), INGESTION)
                                   EXCEPT !.metadata = result[j].metadata,
                                          !.errors = result[j].errors]]
    /\ pc' = [pc EXCEPT ![i] = "ingestion"]
    /\ UNCHANGED <<extracted, ocr_result, calls, tasks, executor, shutdown_pc, client, op_vars, web_vars>>

\* a file_id taken from the file name
process_file_call_named(i, file_data, file_name, content_type) ==
    /\ MayRun(i)
    /\ pc[i] = "idle"
    /\ args' = [args EXCEPT ![i] = [file_data |-> file_data, file_name |-> file_name,
                                    content_type |-> content_type]]
    /\ result' = [result EXCEPT ![i] = FileProcessingResult(Hash(file_name), INGESTION)]
    /\ pc' = [pc EXCEPT ![i] = "ingestion"]
    /\ UNCHANGED <<extracted, ocr_result, calls, tasks, executor, shutdown_pc, client, op_vars, web_vars>>

\* the call: the result is created at stage INGESTION
process_file_call(i, file_data, file_name, content_type) ==
    /\ MayRun(i)
    /\ pc[i] = "idle"
    /\ args' = [args EXCEPT ![i] = [file_data |-> file_data, file_name |-> file_name,
                                    content_type |-> content_type]]
    /\ result' = [result EXCEPT ![i] = FileProcessingResult(Hash(file_data), INGESTION)]
    /\ pc' = [pc EXCEPT ![i] = "ingestion"]
    /\ UNCHANGED <<extracted, ocr_result, calls, tasks, executor, shutdown_pc, client, op_vars, web_vars>>

\* Stage 1: ingest_file up to executor.submit
ingestion_submit(i) ==
    /\ MayRun(i)
    /\ pc[i] = "ingestion"
    /\ IF SubmitRaises
       THEN /\ Raise(i, INGESTION, SubmitError)
            /\ UNCHANGED tasks
       ELSE /\ tasks' = Submit(i, DefaultBackends)
            /\ calls' = [calls EXCEPT ![i].ingest = @ + 1]
            /\ pc' = [pc EXCEPT ![i] = "ingest_return"]
            /\ UNCHANGED result
    /\ UNCHANGED <<args, extracted, ocr_result, executor, shutdown_pc, client, op_vars, web_vars>>

\* the stage assignment after ingest_file left out
AfterIngestionSameStage(r) == r

\* result.stage = ProcessingStage.TEXT_EXTRACTION, before extract_text is called
AfterIngestion(r) == SetStage(r, TEXT_EXTRACTION)

\* client.put(f"{self.tika_server_url}{route}", content=file_content)
TikaRequest(route, content) == [route |-> route, content |-> content]

\* an ingest_file that waits for the future of the submitted work item
ingestion_return_awaiting(i) ==
    /\ MayRun(i)
    /\ pc[i] = "ingest_return"
    /\ \A t \in Pending(i) : tasks[t].state = "done"
    /\ tasks' = Return(CHOOSE t \in Pending(i) : TRUE)
    /\ result' = [result EXCEPT ![i] = AfterIngestion(@)]
    /\ calls' = [calls EXCEPT ![i].extract = @ + 1,
                              ![i].requests = Append(@, TikaRequest("/tika", args[i].file_data))]
    /\ pc' = [pc EXCEPT ![i] = "text_request"]
    /\ UNCHANGED <<args, extracted, ocr_result, executor, shutdown_pc, client, op_vars, web_vars>>

\* what ingest_file would raise if it looked at the outcome of the work item
PersistenceError == [type |-> "RuntimeError", message |-> "persistence failed"]

\* an ingest_file that raises when the work item has already failed
ingestion_return_checking(i) ==
    /\ MayRun(i)
    /\ pc[i] = "ingest_return"
    /\ tasks' = Return(CHOOSE t \in Pending(i) : TRUE)
    /\ IF \E t \in Pending(i) : tasks[t].response.status = "failed"
       THEN Raise(i, INGESTION, PersistenceError)
       ELSE /\ result' = [result EXCEPT ![i] = AfterIngestion(@)]
            /\ calls' = [calls EXCEPT ![i].extract = @ + 1,
                              ![i].requests = Append(@, TikaRequest("/tika", args[i].file_data))]
            /\ pc' = [pc EXCEPT ![i] = "text_request"]
    /\ UNCHANGED <<args, extracted, ocr_result, executor, shutdown_pc, client, op_vars, web_vars>>

\* ingest_file returns; the stage advances and extract_text sends its first
\* request
ingestion_return(i) ==
    /\ MayRun(i)
    /\ pc[i] = "ingest_return"
    /\ tasks' = Return(CHOOSE t \in Pending(i) : TRUE)
    /\ result' = [result EXCEPT ![i] = AfterIngestion(@)]
    /\ calls' = [calls EXCEPT ![i].extract = @ + 1,
                              ![i].requests = Append(@, TikaRequest("/tika", args[i].file_data))]
    /\ pc' = [pc EXCEPT ![i] = "text_request"]
    /\ UNCHANGED <<args, extracted, ocr_result, executor, shutdown_pc, client, op_vars, web_vars>>

\* Stage 2, extract_text: the answer to PUT /tika; raise_for_status raises on
\* a non-success answer, otherwise the /meta request is sent
extract_text_content(i) ==
    /\ MayRun(i)
    /\ pc[i] = "text_request"
    /\ \/ /\ \E text \in Texts : extracted' = [extracted EXCEPT ![i] = Some(text)]
          /\ calls' = [calls EXCEPT
                ![i].requests = Append(@, TikaRequest("/meta", args[i].file_data))]
          /\ pc' = [pc EXCEPT ![i] = "meta_request"]
          /\ UNCHANGED result
       \/ /\ Raise(i, TEXT_EXTRACTION, TikaTextError)
          /\ UNCHANGED extracted
    /\ UNCHANGED <<args, ocr_result, tasks, executor, shutdown_pc, client, op_vars, web_vars>>

\* the stage set to CLEANING right after the extraction
AfterExtractionSkipping(r, text, metadata) ==
    SetStage([r EXCEPT !.metadata = DictUpdate(@, metadata), !.content = text], CLEANING)

\* the result after extract_text has returned `text` and `metadata`
AfterExtraction(r, text, metadata) ==
    SetStage([r EXCEPT !.metadata = DictUpdate(@, metadata), !.content = text], OCR)

\* an extract_text whose text reaches the result before the /meta request
\* is answered: a failing /meta leaves it there
extract_text_metadata_partial(i) ==
    /\ MayRun(i)
    /\ pc[i] = "meta_request"
    /\ \/ /\ \E metadata \in TikaMetadata :
                result' = [result EXCEPT ![i] = AfterExtraction(@, extracted[i], metadata)]
          /\ pc' = [pc EXCEPT ![i] = "ocr"]
          /\ UNCHANGED calls
       \/ /\ result' = [result EXCEPT
                ![i] = ExceptHandler([@ EXCEPT !.content = extracted[i]],
                                     TikaMetaError.message)]
          /\ pc' = [pc EXCEPT ![i] = "returned"]
          /\ calls' = [calls EXCEPT ![i].raised = TEXT_EXTRACTION,
                                    ![i].message = TikaMetaError.message]
    /\ UNCHANGED <<args, extracted, ocr_result, tasks, executor, shutdown_pc, client, op_vars, web_vars>>

\* Stage 2, extract_text: the answer to PUT /meta; on success the result
\* takes the metadata and the content and the stage advances
extract_text_metadata(i) ==
    /\ MayRun(i)
    /\ pc[i] = "meta_request"
    /\ \/ /\ \E metadata \in TikaMetadata :
                result' = [result EXCEPT ![i] = AfterExtraction(@, extracted[i], metadata)]
          /\ pc' = [pc EXCEPT ![i] = "ocr"]
          /\ UNCHANGED calls
       \/ Raise(i, TEXT_EXTRACTION, TikaMetaError)
    /\ UNCHANGED <<args, extracted, ocr_result, tasks, executor, shutdown_pc, client, op_vars, web_vars>>

\* the result after the OCR service has returned `text`
AfterOcr(r, text) ==
    SetStage([r EXCEPT !.content = text, !.metadata = DictUpdate(@, OcrMetadata)],
             CLEANING)

\* Stage 3: OCR, only if the content is empty
ocr_stage(i) ==
    /\ MayRun(i)
    /\ pc[i] = "ocr"
    /\ IF NeedsOCR(result[i].content)
       THEN \/ /\ \E text \in Texts :
                     /\ ocr_result' = [ocr_result EXCEPT ![i] = Some(text)]
                     /\ result' = [result EXCEPT ![i] = AfterOcr(@, Some(text))]
               /\ calls' = [calls EXCEPT ![i].ocr = @ + 1,
                                         ![i].ocr_arg = args[i].file_data]
               /\ pc' = [pc EXCEPT ![i] = "cleaning"]
            \/ /\ \E e \in OcrErrors : Raise(i, OCR, e)
               /\ UNCHANGED ocr_result
       ELSE /\ result' = [result EXCEPT ![i] = SetStage(@, CLEANING)]
            /\ pc' = [pc EXCEPT ![i] = "cleaning"]
            /\ UNCHANGED <<ocr_result, calls>>
    /\ UNCHANGED <<args, extracted, tasks, executor, shutdown_pc, client, op_vars, web_vars>>

\* result.metadata = {"text_quality": ...} in place of the item assignment
AfterCleaningReplacing(r, r1, r2) ==
    Only({[r EXCEPT !.content = Some(cleaned),
                    !.metadata = DictSet(EmptyDict, "text_quality",
                                     assess_quality(cleaned, r2, DefaultMinSimilarity))] :
            cleaned \in {clean_text(r.content.text, r1)}})

\* a quality assessed on the text as it was before the cleaning
AfterCleaningRaw(r, r1, r2) ==
    Only({[r EXCEPT !.content = Some(cleaned),
                    !.metadata = DictSet(@, "text_quality",
                                     assess_quality(r.content.text, r2, DefaultMinSimilarity))] :
            cleaned \in {clean_text(r.content.text, r1)}})

\* the result after the clean-text stage; r1 and r2 are whether ftfy raises
\* in the fix_encoding of clean_text and in that of assess_quality
AfterCleaning(r, r1, r2) ==
    Only({[r EXCEPT !.content = Some(cleaned),
                    !.metadata = DictSet(@, "text_quality",
                                     assess_quality(cleaned, r2, DefaultMinSimilarity))] :
            cleaned \in {clean_text(r.content.text, r1)}})

\* Stage 4: clean text, only if there is content; then COMPLETED and return
cleaning_stage(i) ==
    /\ MayRun(i)
    /\ pc[i] = "cleaning"
    /\ IF Truthy(result[i].content)
       THEN /\ \E r1 \in BOOLEAN, r2 \in BOOLEAN :
                  result' = [result EXCEPT
                                ![i] = SetStage(AfterCleaning(@, r1, r2), COMPLETED)]
            /\ calls' = [calls EXCEPT ![i].clean = @ + 1]
       ELSE /\ result' = [result EXCEPT ![i] = SetStage(@, COMPLETED)]
            /\ UNCHANGED calls
    /\ pc' = [pc EXCEPT ![i] = "returned"]
    /\ UNCHANGED <<args, extracted, ocr_result, tasks, executor, shutdown_pc, client, op_vars, web_vars>>

(***************************************************************************)
(* Service methods called on their own.  op_call holds the method and its  *)
(* inputs (the configuration of the service object included), op_result    *)
(* what the call returned or raised.                                       *)
(***************************************************************************)
Returns(value) == [kind |-> "returned", value |-> value]

Raises(type) == [kind |-> "raised", type |-> type]

\* the rest of the state while such a call runs
service_vars == <<pc, args, result, extracted, ocr_result, calls, tasks, executor,
                  shutdown_pc, client>>

(***************************************************************************)
(* ocr.py : OCRService.extract_text                                        *)
(***************************************************************************)
\* mistral_api_key: Optional[str]: not configured, empty, or a key
ApiKeys == {None, Some(<<>>), Some(<<66>>)}

Languages == {"eng", "deu"}

\* _extract_with_tesseract: Image.open or image_to_string raises, or the
\* dict with the text is returned
extract_with_tesseract(language) ==
    {Raises(e.type) : e \in OcrErrors}
        \cup {Returns([text |-> t, engine |-> "tesseract", language |-> language]) :
                 t \in Texts}

\* _extract_with_mistral: the key check, then the request; raise_for_status
\* raises on a non-success answer, otherwise response.json() is returned
extract_with_mistral(mistral_api_key) ==
    IF ~Truthy(mistral_api_key) THEN {Raises("ValueError")}
    ELSE {Raises("HTTPError")}
            \cup {Returns([text |-> t, engine |-> "mistral"]) : t \in Texts}

\* `if use_mistral and self.mistral_api_key`
TakesMistral(use_mistral, mistral_api_key) == use_mistral /\ Truthy(mistral_api_key)

\* what extract_text can return or raise (its except clause re-raises)
ocr_extract_text_outcomes(language, use_mistral, mistral_api_key) ==
    IF TakesMistral(use_mistral, mistral_api_key)
    THEN extract_with_mistral(mistral_api_key)
    ELSE extract_with_tesseract(language)

OcrExtractCalls ==
    [op : {"ocr.extract_text"}, image_data : ByteStrings, language : Languages,
     use_mistral : BOOLEAN, mistral_api_key : ApiKeys]

ocr_extract_text ==
    /\ op_call.op = "ocr.extract_text"
    /\ op_result = None
    /\ op_result' \in ocr_extract_text_outcomes(op_call.language, op_call.use_mistral,
                                                op_call.mistral_api_key)
    /\ UNCHANGED <<service_vars, web_vars, op_call>>

(***************************************************************************)
(* ocr.py : OCRService.assess_quality                                      *)
(***************************************************************************)
\* the sides of the images of the model, in pixels
Sides == {1, 1000, 2000}

\* Image.open(io.BytesIO(image_data)): it raises, or the image has a size
Images == {[ok |-> FALSE, width |-> 0, height |-> 0]}
              \cup [ok : {TRUE}, width : Sides, height : Sides]

FracMin(x, y) == IF FracLeq(x, y) THEN x ELSE y

\* min(1.0, area / (1000 * 1000)), and 0.0 from the except clause
ocr_assess_quality(image) ==
    IF ~image.ok THEN Returns(Zero)
    ELSE Returns(FracMin(One, Frac(image.width * image.height, 1000 * 1000)))

OcrQualityCalls == [op : {"ocr.assess_quality"}, image : Images]

ocr_assess_quality_call ==
    /\ op_call.op = "ocr.assess_quality"
    /\ op_result = None
    /\ op_result' = ocr_assess_quality(op_call.image)
    /\ UNCHANGED <<service_vars, web_vars, op_call>>

(***************************************************************************)
(* text_extraction.py : detect_language and validate_file_type             *)
(***************************************************************************)
\* a lone surrogate: a code point a str can hold and UTF-8 cannot encode
SURROGATE == 55296

IsSurrogate(c) == c \in 55296..57343

\* text.encode("utf-8") raises UnicodeEncodeError on a surrogate
Encodable(text) == \A k \in 1..Len(text) : ~IsSurrogate(text[k])

LanguageTexts == Texts \cup {<<SURROGATE>>}

\* the bodies of the answers of /language/string
LanguageBodies == {<<>>, <<101, 110>>, <<101, 110, 10>>}

\* the answer to a request: an httpx.HTTPError (no connection, or a
\* non-success status through raise_for_status), or a body
HttpAnswers(bodies) == {[ok |-> FALSE, body |-> <<>>]} \cup [ok : {TRUE}, body : bodies]

\* except httpx.HTTPError: the only exceptions detect_language and
\* validate_file_type catch
CaughtByHTTPHandler(type) == type = "HTTPError"

detect_language(text, answer) ==
    IF ~Encodable(text)
    THEN IF CaughtByHTTPHandler("UnicodeEncodeError")
         THEN Returns(None) ELSE Raises("UnicodeEncodeError")
    ELSE IF ~answer.ok
    THEN IF CaughtByHTTPHandler("HTTPError") THEN Returns(None) ELSE Raises("HTTPError")
    ELSE Returns(Some(Strip(answer.body)))

DetectLanguageCalls ==
    [op : {"detect_language"}, text : LanguageTexts, answer : HttpAnswers(LanguageBodies)]

detect_language_call ==
    /\ op_call.op = "detect_language"
    /\ op_result = None
    /\ op_result' = detect_language(op_call.text, op_call.answer)
    /\ UNCHANGED <<service_vars, web_vars, op_call>>

OCTET_STREAM == "application/octet-stream"

\* the bodies of the answers of /detect/stream: a media type, possibly
\* followed by a newline
DetectBodies == [mime : {OCTET_STREAM, "text/plain", "image/png"}, newline : BOOLEAN]

\* response.text.strip()
StripBody(body) == body.mime

validate_file_type(file_content, answer) ==
    IF ~answer.ok
    THEN IF CaughtByHTTPHandler("HTTPError") THEN Returns(FALSE) ELSE Raises("HTTPError")
    ELSE Returns(StripBody(answer.body) # OCTET_STREAM)

ValidateCalls ==
    [op : {"validate_file_type"}, file_content : ByteStrings,
     answer : {[ok |-> FALSE, body |-> [mime |-> "", newline |-> FALSE]]}
                  \cup [ok : {TRUE}, body : DetectBodies]]

validate_file_type_call ==
    /\ op_call.op = "validate_file_type"
    /\ op_result = None
    /\ op_result' = validate_file_type(op_call.file_content, op_call.answer)
    /\ UNCHANGED <<service_vars, web_vars, op_call>>

(***************************************************************************)
(* clean_text.py : remove_noise then normalize_text, applied repeatedly    *)
(***************************************************************************)
\* tab, newline, space, B, b, no-break space, e-acute, the ligature fi
NoisyChars == {9, 10, 32, 66, 98, 160, 233, 64257}

NoisyTexts == SeqsUpTo(NoisyChars, MaxLen)

\* normalize_text(remove_noise(text))
NoiseThenNormalize(text) == Only({normalize_text(n) : n \in {remove_noise(text)}})

CleanPassCalls == [op : {"remove_noise.normalize_text"}, text : NoisyTexts]

\* the pair is applied to the text, and then to its own output; the value
\* is the sequence of the outputs so far
clean_pass_first ==
    /\ op_call.op = "remove_noise.normalize_text"
    /\ op_result = None
    /\ op_result' = Returns(<<NoiseThenNormalize(op_call.text)>>)
    /\ UNCHANGED <<service_vars, web_vars, op_call>>

clean_pass_again ==
    /\ op_call.op = "remove_noise.normalize_text"
    /\ op_result # None
    /\ Len(op_result.value) = 1
    /\ op_result' = Returns(Append(op_result.value, NoiseThenNormalize(op_result.value[1])))
    /\ UNCHANGED <<service_vars, web_vars, op_call>>

(***************************************************************************)
(* clean_text.py : assess_quality, detect_duplicates and clean_text called *)
(* on their own, on a service constructed with a min_similarity            *)
(***************************************************************************)
\* newline, space, B, b
QualityChars == {10, 32, 66, 98}

QualityTexts == SeqsUpTo(QualityChars, MaxQualityLen)

\* two lines of ten characters that differ in the last one: their ratio is
\* 2 * 9 / 20
NearDuplicateLines ==
    <<98, 98, 98, 98, 98, 98, 98, 98, 98, 98, 10, 98, 98, 98, 98, 98, 98, 98, 98, 98, 66>>

\* the values min_similarity is configured with: 0.5, the default 0.9, 1.0
Thresholds == {Frac(1, 2), DefaultMinSimilarity, One}

AssessQualityCalls ==
    [op : {"assess_quality"}, text : QualityTexts, raises : BOOLEAN,
     min_similarity : Thresholds]

assess_quality_call ==
    /\ op_call.op = "assess_quality"
    /\ op_result = None
    /\ op_result' = Returns(assess_quality(op_call.text, op_call.raises,
                                            op_call.min_similarity))
    /\ UNCHANGED <<service_vars, web_vars, op_call>>

DetectDuplicatesCalls ==
    [op : {"detect_duplicates"}, text : QualityTexts \cup {NearDuplicateLines},
     min_similarity : Thresholds]

detect_duplicates_call ==
    /\ op_call.op = "detect_duplicates"
    /\ op_result = None
    /\ op_result' = Returns(detect_duplicates(op_call.text, op_call.min_similarity))
    /\ UNCHANGED <<service_vars, web_vars, op_call>>

CleanTextCalls == [op : {"clean_text"}, text : NoisyTexts, raises : BOOLEAN]

clean_text_call ==
    /\ op_call.op = "clean_text"
    /\ op_result = None
    /\ op_result' = Returns(clean_text(op_call.text, op_call.raises))
    /\ UNCHANGED <<service_vars, web_vars, op_call>>

(***************************************************************************)
(* auth/jwt.py, routers/auth.py, middleware/auth.py.  A token is modelled  *)
(* by its payload and by whether it is signed with SECRET_KEY: jwt.encode  *)
(* is a function of the payload, and jwt.decode raises JWTError on a bad   *)
(* signature and on an `exp` that has passed.  Time is counted in minutes, *)
(* one request a minute.                                                   *)
(***************************************************************************)
\* the registered users, by str(user.id)
Users == {"u1", "u2"}

Username(user_id) == IF user_id = "u1" THEN "alice" ELSE "bob"

\* a claim that the payload does not have
Absent == "absent"

\* a payload without `exp`
NoExp == 0 - 1

ACCESS_TOKEN_EXPIRE_MINUTES == 30

REFRESH_TOKEN_EXPIRE_DAYS == 7

\* datetime.utcnow()
Now == Len(auth_log)

\* create_access_token(data={"sub": ..., "username": ...})
create_access_token(data) ==
    [sub |-> data.sub, username |-> data.username, type |-> Absent,
     exp |-> Now + ACCESS_TOKEN_EXPIRE_MINUTES, signed |-> TRUE]

\* create_refresh_token(user_id): expires_delta is computed and not used
create_refresh_token(user_id) ==
    [sub |-> user_id, username |-> Absent, type |-> "refresh", exp |-> NoExp,
     signed |-> TRUE]

\* a token that was not signed with SECRET_KEY
Forged ==
    [sub |-> "u1", username |-> Absent, type |-> Absent, exp |-> NoExp, signed |-> FALSE]

\* no token in a response
NoToken ==
    [sub |-> Absent, username |-> Absent, type |-> Absent, exp |-> NoExp, signed |-> FALSE]

HTTPException(status_code) ==
    [kind |-> "raised", type |-> "HTTPException", status_code |-> status_code]

\* jwt.decode raises JWTError
DecodeFails(token) == ~token.signed \/ (token.exp # NoExp /\ token.exp <= Now)

\* verify_token(token): every token of the model has a string `sub`
verify_token(token) ==
    IF DecodeFails(token) THEN HTTPException(401)
    ELSE Returns([user_id |-> token.sub, username |-> token.username])

\* a row of refresh_tokens; `token` is unique
RefreshToken(user_id, token) ==
    [user_id |-> user_id, token |-> token,
     expires_at |-> Now + REFRESH_TOKEN_EXPIRE_DAYS * 24 * 60]

\* the query of rotate_refresh_token: .first() of the matching rows
MatchingRows(user_id, old_token) ==
    {row \in refresh_tokens :
        row.user_id = user_id /\ row.token = old_token /\ row.expires_at > Now}

\* the answer of a route, and the tokens in it
Answer(op, token, status_code, access_token, new_refresh_token) ==
    [op |-> op, token |-> token, status_code |-> status_code,
     access_token |-> access_token, refresh_token |-> new_refresh_token]

Answered200(op, token, user_id, new_refresh_token) ==
    Answer(op, token, 200,
           create_access_token([sub |-> user_id, username |-> Username(user_id)]),
           new_refresh_token)

Rejected(op, token, status_code) == Answer(op, token, status_code, NoToken, NoToken)

\* the tokens the service has handed out so far
Issued ==
    {auth_log[k].access_token : k \in 1..Len(auth_log)}
        \cup {auth_log[k].refresh_token : k \in 1..Len(auth_log)}

\* the tokens a client can present: one it was given, or one it made up
Presentable == (Issued \ {NoToken}) \cup {Forged}

\* POST /login: db.commit() raises IntegrityError when the token is already
\* in the table, which the route does not catch
login(user_id, password_ok) ==
    /\ Len(auth_log) < MaxRequests
    /\ LET new_token == create_refresh_token(user_id)
       IN  IF ~password_ok
           THEN /\ auth_log' = Append(auth_log, Rejected("login", NoToken, 401))
                /\ UNCHANGED refresh_tokens
           ELSE IF \E row \in refresh_tokens : row.token = new_token
           THEN /\ auth_log' = Append(auth_log, Rejected("login", NoToken, 500))
                /\ UNCHANGED refresh_tokens
           ELSE /\ refresh_tokens' = refresh_tokens \cup {RefreshToken(user_id, new_token)}
                /\ auth_log' = Append(auth_log,
                                      Answered200("login", NoToken, user_id, new_token))
    /\ UNCHANGED <<service_vars, op_vars, upload>>

\* rotate_refresh_token(db, user_id, old_token): the table after the update
\* of the row found; an update to a token another row holds raises
\* IntegrityError
rotate_refresh_token(row, new_token) ==
    (refresh_tokens \ {row})
        \cup {[row EXCEPT !.token = new_token,
                          !.expires_at = Now + REFRESH_TOKEN_EXPIRE_DAYS * 24 * 60]}

\* POST /refresh
refresh_token(token) ==
    /\ Len(auth_log) < MaxRequests
    /\ LET payload == verify_token(token)
           user_id == payload.value.user_id
           new_token == create_refresh_token(user_id)
       IN  IF payload.kind = "raised" \/ MatchingRows(token.sub, token) = {}
           THEN /\ auth_log' = Append(auth_log, Rejected("refresh", token, 401))
                /\ UNCHANGED refresh_tokens
           ELSE LET row == CHOOSE row \in MatchingRows(user_id, token) : TRUE
                IN  IF \E other \in refresh_tokens \ {row} : other.token = new_token
                    THEN /\ auth_log' = Append(auth_log, Rejected("refresh", token, 401))
                         /\ UNCHANGED refresh_tokens
                    ELSE /\ refresh_tokens' = rotate_refresh_token(row, new_token)
                         /\ auth_log' = Append(auth_log,
                                Answered200("refresh", token, user_id, new_token))
    /\ UNCHANGED <<service_vars, op_vars, upload>>

\* POST /logout: the rows with this token are deleted
logout(token) ==
    /\ Len(auth_log) < MaxRequests
    /\ refresh_tokens' = {row \in refresh_tokens : row.token # token}
    /\ auth_log' = Append(auth_log, Answer("logout", token, 200, NoToken, NoToken))
    /\ UNCHANGED <<service_vars, op_vars, upload>>

\* the Authorization header of a request: none, or a scheme and a token
Schemes == {"Bearer", "Basic"}

\* JWTBearer.__call__: verify_token raises HTTPException, never JWTError, so
\* the except clause of __call__ catches nothing
JWTBearer(has_credentials, scheme, token) ==
    /\ Len(auth_log) < MaxRequests
    /\ auth_log' = Append(auth_log,
          IF ~has_credentials \/ scheme # "Bearer" THEN Rejected("bearer", token, 403)
          ELSE IF verify_token(token).kind = "raised" THEN Rejected("bearer", token, 401)
          ELSE Answer("bearer", token, 200, NoToken, NoToken))
    /\ UNCHANGED <<service_vars, op_vars, upload, refresh_tokens>>

(***************************************************************************)
(* routers/files.py : POST /upload.  A content type is the sequence of its *)
(* characters.                                                             *)
(***************************************************************************)
\* "image/*"
IMAGE_ANY ==
    <<"i", "m", "a", "g", "e", "/", "*">>

\* "application/pdf"
APPLICATION_PDF ==
    <<"a", "p", "p", "l", "i", "c", "a", "t", "i", "o", "n", "/", "p", "d",
      "f">>

\* "text/plain"
TEXT_PLAIN ==
    <<"t", "e", "x", "t", "/", "p", "l", "a", "i", "n">>

\* "application/vnd.openxmlformats-officedocument.*"
OPENXML_ANY ==
    <<"a", "p", "p", "l", "i", "c", "a", "t", "i", "o", "n", "/", "v", "n",
      "d", ".", "o", "p", "e", "n", "x", "m", "l", "f", "o", "r", "m", "a",
      "t", "s", "-", "o", "f", "f", "i", "c", "e", "d", "o", "c", "u", "m",
      "e", "n", "t", ".", "*">>

\* "image/png"
IMAGE_PNG ==
    <<"i", "m", "a", "g", "e", "/", "p", "n", "g">>

\* "application/vnd.openxmlformats-officedocument.spreadsheetml.sheet"
OPENXML_SHEET ==
    <<"a", "p", "p", "l", "i", "c", "a", "t", "i", "o", "n", "/", "v", "n",
      "d", ".", "o", "p", "e", "n", "x", "m", "l", "f", "o", "r", "m", "a",
      "t", "s", "-", "o", "f", "f", "i", "c", "e", "d", "o", "c", "u", "m",
      "e", "n", "t", ".", "s", "p", "r", "e", "a", "d", "s", "h", "e", "e",
      "t", "m", "l", ".", "s", "h", "e", "e", "t">>

\* "application/zip"
APPLICATION_ZIP ==
    <<"a", "p", "p", "l", "i", "c", "a", "t", "i", "o", "n", "/", "z", "i",
      "p">>

\* "text/html"
TEXT_HTML ==
    <<"t", "e", "x", "t", "/", "h", "t", "m", "l">>

\* "application/octet-stream"
APPLICATION_OCTET_STREAM ==
    <<"a", "p", "p", "l", "i", "c", "a", "t", "i", "o", "n", "/", "o", "c",
      "t", "e", "t", "-", "s", "t", "r", "e", "a", "m">>

MAX_FILE_SIZE == 100 * 1024 * 1024

ALLOWED_MIME_TYPES == <<IMAGE_ANY, APPLICATION_PDF, TEXT_PLAIN, OPENXML_ANY>>

\* str.startswith
StartsWith(s, prefix) == Len(prefix) <= Len(s) /\ SubSeq(s, 1, Len(prefix)) = prefix

\* any(content_type.startswith(allowed) for allowed in ALLOWED_MIME_TYPES)
MimeAllowed(content_type) ==
    \E k \in 1..Len(ALLOWED_MIME_TYPES) : StartsWith(content_type, ALLOWED_MIME_TYPES[k])

\* file.content_type, <<>> for None
UploadContentTypes ==
    {<<>>, IMAGE_ANY, APPLICATION_PDF, TEXT_PLAIN, IMAGE_PNG, OPENXML_SHEET,
     APPLICATION_ZIP, TEXT_HTML}

\* file.size, NoSize for None
NoSize == 0 - 1

UploadSizes == {NoSize, 0, 1, MAX_FILE_SIZE, MAX_FILE_SIZE + 1}

\* the form field metadata: None, or a string
NoMetadata == [present |-> FALSE, text |-> ""]

\* the strings json.loads parses; on the others it raises JSONDecodeError
JsonDocuments == {"{}", "[1]"}

UploadMetadata == {NoMetadata} \cup [present : {TRUE}, text : {"", "{", "{}", "[1]"}]

UploadRequests ==
    [filename : FileNames \cup {""}, size : UploadSizes,
     content_type : UploadContentTypes, metadata : UploadMetadata]

\* the request as the handler receives it
Received(request) ==
    [pc |-> "received", request |-> request, status_code |-> 0, detail |-> "",
     background_tasks |-> <<>>, processing_status |-> ""]

\* file.size or 0
FileSize(request) == IF request.size = NoSize THEN 0 ELSE request.size

\* file.content_type or "application/octet-stream"
ContentTypeOf(request) ==
    IF request.content_type = <<>> THEN APPLICATION_OCTET_STREAM ELSE request.content_type

\* `if metadata:` and json.loads(metadata) raises
MetadataInvalid(request) ==
    /\ request.metadata.present
    /\ request.metadata.text # ""
    /\ request.metadata.text \notin JsonDocuments

\* raise HTTPException(status_code, detail)
Reject(status_code, detail) ==
    [upload EXCEPT !.pc = "rejected", !.status_code = status_code, !.detail = detail]

\* background_tasks.add_task(pipeline.process_file, ...)
AddTask(u, file_content) ==
    [u EXCEPT !.background_tasks =
        Append(@, [file_content |-> file_content, file_name |-> u.request.filename,
                   content_type |-> ContentTypeOf(u.request)])]

\* a handler that schedules the pipeline before it parses the metadata
upload_file_validate_scheduling_first ==
    /\ upload.pc = "received"
    /\ LET request == upload.request
       IN  upload' =
             IF request.filename = "" THEN Reject(400, "No filename provided")
             ELSE IF FileSize(request) > MAX_FILE_SIZE
             THEN Reject(413, "File size exceeds maximum allowed size")
             ELSE IF ~MimeAllowed(ContentTypeOf(request))
             THEN Reject(415, "File type not allowed")
             ELSE IF MetadataInvalid(request)
             THEN AddTask(Reject(400, "Invalid metadata format"), "b1")
             ELSE [upload EXCEPT !.pc = "reading"]
    /\ UNCHANGED <<service_vars, op_vars, refresh_tokens, auth_log>>

\* upload_file up to `await file.read()`: the four checks, in their order
upload_file_validate ==
    /\ upload.pc = "received"
    /\ LET request == upload.request
       IN  upload' =
             IF request.filename = "" THEN Reject(400, "No filename provided")
             ELSE IF FileSize(request) > MAX_FILE_SIZE
             THEN Reject(413, "File size exceeds maximum allowed size")
             ELSE IF ~MimeAllowed(ContentTypeOf(request))
             THEN Reject(415, "File type not allowed")
             ELSE IF MetadataInvalid(request)
             THEN Reject(400, "Invalid metadata format")
             ELSE [upload EXCEPT !.pc = "reading"]
    /\ UNCHANGED <<service_vars, op_vars, refresh_tokens, auth_log>>

\* upload_file after the read: the BackgroundTasks object FastAPI passes is
\* truthy, so the pipeline is added as a background task and the answer
\* says queued
upload_file_respond ==
    /\ upload.pc = "reading"
    /\ \E file_content \in ByteStrings :
          upload' = [AddTask(upload, file_content) EXCEPT
                        !.pc = "responded", !.status_code = 200,
                        !.processing_status = "queued"]
    /\ UNCHANGED <<service_vars, op_vars, refresh_tokens, auth_log>>

\* the background tasks run after the answer: task k is invocation k
run_background_task ==
    /\ upload.pc = "responded"
    /\ \E k \in 1..Len(upload.background_tasks) :
          process_file_call(k, upload.background_tasks[k].file_content,
                            upload.background_tasks[k].file_name,
                            upload.background_tasks[k].content_type)

(***************************************************************************)
(* The specifications.                                                     *)
(***************************************************************************)
\* FileIngestionService.__init__ : max_workers: int = 4
DefaultMaxWorkers == 4

\* no request to POST /upload
NoUpload == [pc |-> "none"]

\* the worker counts a service is constructed with in the model
WorkerCounts == {1, DefaultMaxWorkers}

InitPipeline ==
    /\ pc = [i \in Invocations |-> "idle"]
    /\ args = [i \in Invocations |-> NoArgs]
    /\ result = [i \in Invocations |-> NoResult]
    /\ extracted = [i \in Invocations |-> None]
    /\ ocr_result = [i \in Invocations |-> None]
    /\ calls = [i \in Invocations |-> NoCalls]

InitService(max_workers) ==
    /\ tasks = <<>>
    /\ executor = [max_workers |-> max_workers, shutdown |-> FALSE]
    /\ shutdown_pc = "none"
    /\ client = [c \in Clients |-> [pc |-> "idle"]]

\* no service method is called on its own
\* no request to the auth routes and none to the upload route
InitNoWeb ==
    /\ refresh_tokens = {}
    /\ auth_log = <<>>
    /\ upload = NoUpload

InitNoCall ==
    /\ op_call = [op |-> "none"]
    /\ op_result = None
    /\ InitNoWeb

\* a pipeline whose ingestion service has the default worker count
Init == InitPipeline /\ InitService(DefaultMaxWorkers) /\ InitNoCall

Worker ==
    \E t \in 1..Len(tasks) :
        \/ process_file_read(t)
        \/ process_file_backend(t)
        \/ process_file_completed(t)

Shutdown == shutdown_call \/ shutdown_return

\* the invocations that run under Spec
Single == {1}

Pipeline(I) ==
    \E i \in I :
        \/ \E d \in ByteStrings, n \in FileNames, c \in ContentTypes :
              process_file_call(i, d, n, c)
        \/ ingestion_submit(i)
        \/ ingestion_return(i)
        \/ extract_text_content(i)
        \/ extract_text_metadata(i)
        \/ ocr_stage(i)
        \/ cleaning_stage(i)

Next == Pipeline(Single) \/ Worker \/ Shutdown

\* one process_file invocation, the worker pool and shutdown
Spec == Init /\ [][Next]_vars

\* an ingestion service used directly, with a configured worker count
InitIngest == InitPipeline /\ InitNoCall /\ \E w \in WorkerCounts : InitService(w)

Client ==
    \E c \in Clients :
        \/ \E backends \in RequestsOf(c) : ingest_file_submit(c, backends)
        \/ ingest_file_return(c)

NextIngest == Client \/ Worker \/ Shutdown

SpecIngest == InitIngest /\ [][NextIngest]_vars

\* SpecIngest with its scheduling: a worker thread that has something to do
\* does it, and every read and store call returns or raises
SpecIngestLive == SpecIngest /\ WF_vars(Worker)

\* the calls of service methods on their own
OpCalls ==
    OcrExtractCalls \cup OcrQualityCalls \cup DetectLanguageCalls \cup ValidateCalls

InitCalls ==
    /\ InitPipeline
    /\ InitService(DefaultMaxWorkers)
    /\ op_call \in OpCalls
    /\ op_result = None
    /\ InitNoWeb

NextCalls ==
    \/ ocr_extract_text
    \/ ocr_assess_quality_call
    \/ detect_language_call
    \/ validate_file_type_call

\* one call of one service method, for every input of the model
SpecCalls == InitCalls /\ [][NextCalls]_vars

InitText ==
    /\ InitPipeline
    /\ InitService(DefaultMaxWorkers)
    /\ op_call \in CleanPassCalls
    /\ op_result = None
    /\ InitNoWeb

NextText == clean_pass_first \/ clean_pass_again

\* the text functions of CleanTextService, for every text of the model
SpecText == InitText /\ [][NextText]_vars

QualityCalls == AssessQualityCalls \cup DetectDuplicatesCalls \cup CleanTextCalls

InitQuality ==
    /\ InitPipeline
    /\ InitService(DefaultMaxWorkers)
    /\ op_call \in QualityCalls
    /\ op_result = None
    /\ InitNoWeb

NextQuality ==
    \/ assess_quality_call
    \/ detect_duplicates_call
    \/ clean_text_call

\* one call of a CleanTextService method, for every input of the model
SpecQuality == InitQuality /\ [][NextQuality]_vars

\* what Tika and Tesseract answer under SpecTwo: no text, a text the
\* cleaning changes, a text the cleaning empties
TwoTexts == {<<>>, <<66>>, <<233>>}

\* the file name invocation i is called with under SpecTwo
NameOf(i) == IF i = 1 THEN "f1" ELSE "f2"

\* the inputs of SpecTwo: every byte string, one file name for each
\* invocation, the texts of TwoTexts, and Tika metadata with no key or all
TwoInputs ==
    \A i \in Invocations :
        /\ extracted[i].text \in TwoTexts
        /\ ocr_result[i].text \in TwoTexts
        /\ args[i].file_name \in {"", NameOf(i)}
        /\ DOMAIN result[i].metadata \cap MetaKeys \in {{}, MetaKeys}

\* the worker threads of SpecTwo: every read and every store call succeeds
WorkersSucceed ==
    \A t \in 1..Len(tasks) :
        /\ tasks[t].read # "failed"
        /\ \A k \in 1..Len(tasks[t].outcomes) : tasks[t].outcomes[k] = "stored"

NextTwo ==
    \/ Pipeline(Invocations) /\ TwoInputs'
    \/ Worker /\ WorkersSucceed'

\* two process_file invocations on one pipeline, interleaved at their
\* suspension points, and the worker pool they share
SpecTwo == Init /\ [][NextTwo]_vars

InitAuth ==
    /\ InitPipeline
    /\ InitService(DefaultMaxWorkers)
    /\ InitNoCall

NextAuth ==
    \/ \E user_id \in Users, password_ok \in BOOLEAN : login(user_id, password_ok)
    \/ \E token \in Presentable : refresh_token(token)
    \/ \E token \in Presentable : logout(token)
    \/ \E has_credentials \in BOOLEAN, scheme \in Schemes, token \in Presentable :
          JWTBearer(has_credentials, scheme, token)

\* the auth routes and the bearer check, for every sequence of requests
SpecAuth == InitAuth /\ [][NextAuth]_vars

InitUpload ==
    /\ InitPipeline
    /\ InitService(DefaultMaxWorkers)
    /\ op_call = [op |-> "none"]
    /\ op_result = None
    /\ refresh_tokens = {}
    /\ auth_log = <<>>
    /\ upload \in {Received(request) : request \in UploadRequests}

NextUpload ==
    \/ upload_file_validate
    \/ upload_file_respond
    \/ run_background_task

\* one request to POST /upload, for every request of the model
SpecUpload == InitUpload /\ [][NextUpload]_vars

\* Spec with its scheduling: the event loop resumes a coroutine that can
\* run, every call to a stage service returns or raises, the worker threads
\* run, and shutdown() is awaited to its end
SpecLive ==
    Spec /\ WF_vars(Pipeline(Single)) /\ WF_vars(Worker) /\ WF_vars(Shutdown)

(***************************************************************************)
(* The claims.                                                             *)
(***************************************************************************)
Returned(i) == pc[i] = "returned"

\* C1: whatever stage raises, process_file never lets the exception out to
\* its caller, and every invocation that has started comes to return its
\* FileProcessingResult.
C1_AlwaysReturnsResult ==
    /\ [](\A i \in Invocations : pc[i] # "propagated")
    /\ \A i \in Single : (pc[i] = "ingestion") ~> Returned(i)

\* a stage has raised (here: the submission to the shut down executor) and
\* process_file has returned
C1_Witness ==
    \E i \in Invocations : Returned(i) /\ calls[i].raised = INGESTION

\* the stages that come after `stage` were not invoked in invocation i
NoLaterStage(i, stage) ==
    /\ stage = INGESTION => calls[i].extract = 0
    /\ stage \in {INGESTION, TEXT_EXTRACTION} => calls[i].ocr = 0
    /\ calls[i].clean = 0

\* C2: when a stage has raised, process_file has returned without invoking
\* a later stage, the stage of the result is the stage that raised, and the
\* exception's message is in errors under that stage's name.
C2_FailureStopsAtStage ==
    \A i \in Invocations :
        calls[i].raised # "none" =>
            /\ Returned(i)
            /\ result[i].stage = calls[i].raised
            /\ calls[i].raised \in DOMAIN result[i].errors
            /\ result[i].errors[calls[i].raised] = calls[i].message
            /\ NoLaterStage(i, calls[i].raised)

\* the OCR stage has raised after a successful extraction
C2_Witness ==
    \E i \in Invocations :
        /\ Returned(i)
        /\ calls[i].raised = OCR
        /\ calls[i].extract = 1
        /\ OCR \in DOMAIN result[i].errors

\* C3: the result of an invocation starts at stage ingestion with no
\* content, no metadata and no errors, and every step of the invocation
\* leaves the stage where it is or moves it to the next stage of the order
\* ingestion, text_extraction, ocr, cleaning, completed.
C3_StageOneStepForward ==
    [][\A i \in Invocations :
          /\ (pc[i] = "idle" /\ pc'[i] # "idle") =>
                /\ result'[i].stage = INGESTION
                /\ result'[i].content = None
                /\ result'[i].metadata = EmptyDict
                /\ result'[i].errors = EmptyDict
          /\ pc[i] # "idle" =>
                StageIndex(result'[i].stage) \in
                    {StageIndex(result[i].stage), StageIndex(result[i].stage) + 1}]_vars

\* an invocation has gone through every stage
C3_Witness ==
    \E i \in Invocations :
        Returned(i) /\ result[i].stage = COMPLETED /\ calls[i].ocr = 1 /\ calls[i].clean = 1

\* content is the clean-text output of `text`
IsCleaned(content, text) == \E r \in BOOLEAN : content = Some(clean_text(text.text, r))

\* C4: when the extraction gave non-empty content and no stage raised, the
\* returned result is at stage completed with no errors, the OCR service was
\* not invoked, and content is the clean-text output of the extracted text.
C4_ExtractedTextNoOcr ==
    \A i \in Invocations :
        (Returned(i) /\ Truthy(extracted[i]) /\ calls[i].raised = "none") =>
            /\ calls[i].ocr = 0
            /\ result[i].stage = COMPLETED
            /\ result[i].errors = EmptyDict
            /\ IsCleaned(result[i].content, extracted[i])

\* a completed invocation whose cleaning changed the extracted text
C4_Witness ==
    \E i \in Invocations :
        /\ Returned(i)
        /\ Truthy(extracted[i])
        /\ calls[i].raised = "none"
        /\ calls[i].clean = 1
        /\ result[i].content # extracted[i]

\* the extraction of invocation i has succeeded and the OCR stage is over
PastOcr(i) ==
    /\ pc[i] \in {"cleaning", "returned"}
    /\ calls[i].raised \notin {INGESTION, TEXT_EXTRACTION}

\* C5: when the extraction succeeded with empty content, the OCR service is
\* invoked exactly once, on the bytes process_file was called with; and if
\* it gave non-empty text, the returned result is at stage completed and its
\* content is the clean-text output of the OCR text.
C5_EmptyExtractionRunsOcrOnce ==
    \A i \in Invocations :
        (PastOcr(i) /\ extracted[i] = Some(<<>>)) =>
            /\ calls[i].ocr = 1
            /\ calls[i].ocr_arg = args[i].file_data
            /\ (Returned(i) /\ Truthy(ocr_result[i])) =>
                  /\ result[i].stage = COMPLETED
                  /\ IsCleaned(result[i].content, ocr_result[i])

\* empty extraction, then OCR text that the cleaning changed
C5_Witness ==
    \E i \in Invocations :
        /\ Returned(i)
        /\ extracted[i] = Some(<<>>)
        /\ Truthy(ocr_result[i])
        /\ calls[i].ocr = 1
        /\ result[i].stage = COMPLETED
        /\ result[i].content # ocr_result[i]

\* C6: when extract_text raised (on either of its two requests), the
\* returned result is at stage text_extraction, errors has the key
\* text_extraction, content is absent, and neither the OCR service nor the
\* cleaning was invoked.
C6_ExtractionFailure ==
    \A i \in Invocations :
        calls[i].raised = TEXT_EXTRACTION =>
            /\ Returned(i)
            /\ result[i].stage = TEXT_EXTRACTION
            /\ TEXT_EXTRACTION \in DOMAIN result[i].errors
            /\ result[i].content = None
            /\ calls[i].ocr = 0
            /\ calls[i].clean = 0

\* the /meta request failed after /tika had answered with text
C6_Witness ==
    \E i \in Invocations :
        /\ Returned(i)
        /\ calls[i].raised = TEXT_EXTRACTION
        /\ Truthy(extracted[i])
        /\ calls[i].message = TikaMetaError.message

\* C7: no step of an invocation removes a key from the metadata of its
\* result.
C7_MetadataKeysOnlyGrow ==
    [][\A i \in Invocations :
          DOMAIN result[i].metadata \subseteq DOMAIN result'[i].metadata]_vars

\* the keys of the extraction are still there after the cleaning added its own
C7_Witness ==
    \E i \in Invocations :
        /\ Returned(i)
        /\ DOMAIN result[i].metadata = MetaKeys \cup {"text_quality"}

\* C8: in a returned result content is absent whenever neither the
\* extraction nor the OCR produced text.
C8_ContentAbsentWithoutText ==
    \A i \in Invocations :
        (Returned(i) /\ ~Truthy(extracted[i]) /\ ~Truthy(ocr_result[i])) =>
            result[i].content = None

\* C9: the response ingest_file returns has status queued when it is
\* returned.
C9_ReturnedQueued ==
    \A t \in 1..Len(tasks) : tasks[t].returned \in {"pending", "queued"}

\* the work items whose _process_file has ended after reading the file
Processed == {t \in 1..Len(tasks) : tasks[t].state = "done" /\ tasks[t].read = "ok"}

\* C10: when _process_file has ended, every requested backend was attempted,
\* every backend whose store call did not raise has its storage location in
\* the response, wherever it stands in the list, and the status is
\* completed; ingest_file raises only when the executor is shut down.
C10_BackendsIndependent ==
    /\ \A t \in Processed :
          /\ Len(tasks[t].outcomes) = Len(tasks[t].backends)
          /\ tasks[t].response.status = "completed"
          /\ \A k \in 1..Len(tasks[t].backends) :
                tasks[t].outcomes[k] # "store_failed" =>
                    tasks[t].backends[k] \in DOMAIN tasks[t].response.storage_locations
    /\ \A c \in Clients : client[c].pc = "raised" => executor.shutdown

\* the first backend failed and the second, a different one, was stored
C10_Witness ==
    \E t \in Processed :
        /\ Len(tasks[t].backends) = 2
        /\ tasks[t].backends[1] # tasks[t].backends[2]
        /\ tasks[t].outcomes = <<"store_failed", "stored">>
        /\ DOMAIN tasks[t].response.storage_locations = {tasks[t].backends[2]}

\* the work items whose _process_file has ended
Finished == {t \in 1..Len(tasks) : tasks[t].state = "done"}

\* C11: when _process_file has ended the status is completed if the read of
\* the file content succeeded, whatever the store calls did, and failed
\* exactly when the read raised.
C11_StatusAfterTask ==
    \A t \in Finished :
        /\ tasks[t].read = "ok" => tasks[t].response.status = "completed"
        /\ tasks[t].response.status = "failed" <=> tasks[t].read = "failed"
        /\ tasks[t].response.status \in {"completed", "failed"}

\* every one of two requested backends failed and the status is completed
C11_Witness ==
    \E t \in Finished :
        /\ tasks[t].read = "ok"
        /\ tasks[t].outcomes = <<"store_failed", "store_failed">>
        /\ tasks[t].response.storage_locations = EmptyDict
        /\ tasks[t].response.status = "completed"

\* the positions a work item of SpecIngest can have in `tasks`
TaskIds == 1..Cardinality(Clients)

\* work item t has been submitted
Submitted(t) == t <= Len(tasks)

\* C12: every work item ingest_file has submitted comes to be executed, and
\* no work item is executed more than once.
C12_RunsExactlyOnce ==
    /\ [](\A t \in 1..Len(tasks) : tasks[t].runs <= 1)
    /\ \A t \in TaskIds :
          Submitted(t) ~> (Submitted(t) /\ tasks[t].state = "done" /\ tasks[t].runs = 1)

\* the second submission has run and ended while the first is still running
C12_Witness ==
    /\ Len(tasks) = 2
    /\ tasks[2].state = "done"
    /\ tasks[2].runs = 1
    /\ tasks[1].state = "running"

\* C13: the number of work items being executed never exceeds the worker
\* count the service was constructed with; the other submitted items wait
\* in the queue.
C13_WorkerBound ==
    /\ Cardinality(Running) <= executor.max_workers
    /\ \A t \in 1..Len(tasks) : t \in Queued => tasks[t].runs = 0

\* a pool of one worker is busy and a second submission waits in the queue
C13_Witness ==
    /\ executor.max_workers = 1
    /\ Cardinality(Running) = 1
    /\ Queued # {}

\* C14: when shutdown has returned, every submitted work item has ended:
\* none is queued or running and no response has status queued.
C14_ShutdownDrains ==
    shutdown_pc = "done" =>
        \A t \in 1..Len(tasks) :
            /\ tasks[t].state = "done"
            /\ tasks[t].response.status # "queued"

\* shutdown has returned after two submissions, one of them to two backends
C14_Witness ==
    /\ shutdown_pc = "done"
    /\ Len(tasks) = 2
    /\ \E t \in 1..Len(tasks) : Len(tasks[t].outcomes) = 2

\* C15: once shutdown has been called no step submits a work item, and a
\* process_file invocation whose ingest_file call comes after it returns at
\* once, at stage ingestion, with the executor's message in errors under
\* the key ingestion.
C15_NoSubmissionAfterShutdown ==
    [][executor.shutdown =>
          /\ Len(tasks') = Len(tasks)
          /\ \A i \in Invocations :
                (pc[i] = "ingestion" /\ pc'[i] # "ingestion") =>
                    /\ Returned(i)'
                    /\ result'[i].stage = INGESTION
                    /\ INGESTION \in DOMAIN result'[i].errors
                    /\ result'[i].errors[INGESTION] = SubmitError.message
                    /\ result'[i].content = None]_vars

\* process_file was called after shutdown had returned, and has returned
C15_Witness ==
    \E i \in Invocations :
        /\ shutdown_pc = "done"
        /\ tasks = <<>>
        /\ Returned(i)
        /\ result[i].stage = INGESTION
        /\ DOMAIN result[i].errors = {INGESTION}

\* the next step of invocation i after its submission to the executor
StepAfterSubmit(i) ==
    \/ ingestion_return(i)
    \/ extract_text_content(i)
    \/ extract_text_metadata(i)
    \/ ocr_stage(i)
    \/ cleaning_stage(i)

\* invocation i has submitted its work item and has not returned
Underway(i) == pc[i] \in {"ingest_return", "text_request", "meta_request", "ocr", "cleaning"}

\* C16: process_file never waits for the persistence of its submission:
\* whatever the state of the work item, queued included, the next step of
\* the invocation can be taken (unless the event loop is blocked in
\* shutdown).
C16_DoesNotWaitForPersistence ==
    \A i \in Single :
        (Underway(i) /\ shutdown_pc # "waiting") => ENABLED StepAfterSubmit(i)

\* a result at stage completed is returned while the work item is still
\* queued: nothing has been persisted
C16_Witness ==
    \E i \in Single :
        /\ Returned(i)
        /\ result[i].stage = COMPLETED
        /\ Len(tasks) = 1
        /\ tasks[1].owner = i
        /\ tasks[1].state = "queued"
        /\ tasks[1].response.status = "queued"

\* the call has returned or raised
Answered == op_result # None

\* C17: extract_text called with use_mistral and without a configured key
\* raises the configuration error; it does not return the text of the
\* local engine.
C17_NoSilentFallback ==
    (/\ op_call.op = "ocr.extract_text"
     /\ op_call.use_mistral
     /\ ~Truthy(op_call.mistral_api_key)
     /\ Answered) =>
        /\ op_result.kind = "raised"
        /\ op_result.type = "ValueError"

\* the requests extract_text sends for `content`, in order
ExtractRequests(content) == <<TikaRequest("/tika", content), TikaRequest("/meta", content)>>

\* C18: extract_text sends the /tika request and then the /meta request,
\* both with the bytes process_file was called with; when either is
\* answered with a failure the result has no content and no metadata,
\* whatever the other request gave.
C18_ExtractionAllOrNothing ==
    \A i \in Invocations :
        /\ \E n \in 0..2 :
              calls[i].requests = SubSeq(ExtractRequests(args[i].file_data), 1, n)
        /\ calls[i].raised = TEXT_EXTRACTION =>
              /\ Returned(i)
              /\ result[i].content = None
              /\ result[i].metadata = EmptyDict

\* /tika answered with text, then /meta failed: the text is not in the result
C18_Witness ==
    \E i \in Invocations :
        /\ calls[i].raised = TEXT_EXTRACTION
        /\ Len(calls[i].requests) = 2
        /\ Truthy(extracted[i])
        /\ result[i].content = None

\* the call of a best-effort method met a failure
BestEffortFailed ==
    IF op_call.op = "ocr.assess_quality" THEN ~op_call.image.ok
    ELSE IF op_call.op = "detect_language"
    THEN ~Encodable(op_call.text) \/ ~op_call.answer.ok
    ELSE ~op_call.answer.ok

\* the value a best-effort method gives on failure
BestEffortDefault ==
    IF op_call.op = "ocr.assess_quality" THEN Zero
    ELSE IF op_call.op = "detect_language" THEN None
    ELSE FALSE

\* C19: detect_language, validate_file_type and the OCR assess_quality never
\* raise; on a failure they return absent, false and 0.0; on success
\* validate_file_type returns false exactly for application/octet-stream
\* and assess_quality returns a value from 0 to 1.
C19_BestEffortNeverRaises ==
    (Answered /\ op_call.op \in {"ocr.assess_quality", "detect_language",
                                 "validate_file_type"}) =>
        /\ op_result.kind = "returned"
        /\ BestEffortFailed => op_result.value = BestEffortDefault
        /\ (op_call.op = "validate_file_type" /\ ~BestEffortFailed) =>
              (op_result.value = FALSE <=> op_call.answer.body.mime = OCTET_STREAM)
        /\ op_call.op = "ocr.assess_quality" =>
              FracLeq(Zero, op_result.value) /\ FracLeq(op_result.value, One)

\* C20: remove_noise then normalize_text applied to its own output gives
\* that output again.
C20_NoiseNormalizeIdempotent ==
    (/\ op_call.op = "remove_noise.normalize_text"
     /\ Answered
     /\ Len(op_result.value) = 2) =>
        op_result.value[2] = op_result.value[1]

\* the first pass changed the text (noise removed, a capital lowered) and
\* the second pass has run on its output
C20_Witness ==
    /\ op_call.op = "remove_noise.normalize_text"
    /\ Answered
    /\ Len(op_result.value) = 2
    /\ op_call.text = <<66, 233>>
    /\ op_result.value[1] = <<98>>

\* C21: assess_quality on the empty string returns 0.0 for overall and for
\* each of the four sub-scores.
C21_EmptyTextScoresZero ==
    (op_call.op = "assess_quality" /\ op_call.text = <<>> /\ Answered) =>
        /\ op_result.kind = "returned"
        /\ op_result.value = [overall |-> Zero, encoding |-> Zero, noise |-> Zero,
                              duplicates |-> Zero, structure |-> Zero]

\* assess_quality has returned for the empty string
C21_Witness ==
    /\ op_call.op = "assess_quality"
    /\ op_call.text = <<>>
    /\ Answered
    /\ op_result.value.overall = Zero

\* detect_duplicates has returned; the lines of its text
DuplicatesAnswered == op_call.op = "detect_duplicates" /\ Answered

LinesOfCall == SplitLines(op_call.text)

\* C22: whatever the threshold, two identical lines i < j are reported with
\* ratio 1.0 under the key of (i, j), and every reported key is a pair
\* (i, j) with i < j.
C22_IdenticalLinesReported ==
    DuplicatesAnswered =>
        /\ \A p \in LinePairs(LinesOfCall) :
              LinesOfCall[p[1]] = LinesOfCall[p[2]] =>
                  /\ p \in DOMAIN op_result.value
                  /\ op_result.value[p] = One
        /\ \A p \in DOMAIN op_result.value : p[1] < p[2]

\* C23: a pair of lines is reported exactly when its ratio is at or above
\* the threshold.
C23_ReportedAtOrAboveThreshold ==
    DuplicatesAnswered =>
        \A p \in LinePairs(LinesOfCall) :
            p \in DOMAIN op_result.value <=>
                FracLeq(op_call.min_similarity,
                        Ratio(LinesOfCall[p[1]], LinesOfCall[p[2]]))

\* a score from 0 to 1
InUnitInterval(x) == FracLeq(Zero, x) /\ FracLeq(x, One)

\* C24: each of the four sub-scores assess_quality returns is from 0 to 1.
C24_SubScoresInUnitInterval ==
    (op_call.op = "assess_quality" /\ Answered) =>
        /\ InUnitInterval(op_result.value.encoding)
        /\ InUnitInterval(op_result.value.noise)
        /\ InUnitInterval(op_result.value.duplicates)
        /\ InUnitInterval(op_result.value.structure)

\* a string: a finite sequence of characters
IsText(v) == DOMAIN v = 1..Len(v)

\* C25: clean_text returns a string for every text, the empty one included,
\* and when ftfy raises, fix_encoding gives the text back unchanged and
\* clean_text returns what remove_noise and normalize_text make of it.
C25_CleanTextTotal ==
    (op_call.op = "clean_text" /\ Answered) =>
        /\ op_result.kind = "returned"
        /\ IsText(op_result.value)
        /\ op_call.raises =>
              /\ fix_encoding(op_call.text, TRUE) = op_call.text
              /\ op_result.value = NoiseThenNormalize(op_call.text)

\* ftfy raised on a text with noise and a capital, and clean_text returned
\* the text without the noise, lowered
C25_Witness ==
    /\ op_call.op = "clean_text"
    /\ op_call.raises
    /\ op_call.text = <<233, 66>>
    /\ Answered
    /\ op_result.value = <<98>>

\* C26: at every moment the backends with a presigned URL are among the
\* backends with a storage location, and the local backend has none.
C26_PresignedAmongStored ==
    \A t \in 1..Len(tasks) :
        /\ DOMAIN tasks[t].response.presigned_urls
              \subseteq DOMAIN tasks[t].response.storage_locations
        /\ LOCAL_BACKEND \notin DOMAIN tasks[t].response.presigned_urls

\* the local backend and S3 were both stored, and S3 alone has a URL
C26_Witness ==
    \E t \in 1..Len(tasks) :
        /\ tasks[t].backends = <<LOCAL_BACKEND, S3>>
        /\ tasks[t].outcomes = <<"stored", "stored">>
        /\ DOMAIN tasks[t].response.storage_locations = {LOCAL_BACKEND, S3}
        /\ DOMAIN tasks[t].response.presigned_urls = {S3}

\* invocation j has not come to the end of extract_text
BeforeExtraction(j) ==
    pc[j] \in {"idle", "ingestion", "ingest_return", "text_request", "meta_request"}

\* what the result of invocation j holds is what the steps of j put there
OwnEntries(j) ==
    /\ BeforeExtraction(j) => result[j].metadata = EmptyDict /\ result[j].content = None
    /\ "text_quality" \in DOMAIN result[j].metadata => calls[j].clean = 1
    /\ result[j].errors =
          IF Returned(j) /\ calls[j].raised # "none"
          THEN DictSet(EmptyDict, calls[j].raised, calls[j].message)
          ELSE EmptyDict
    /\ result[j].content \in
          {None, extracted[j], ocr_result[j]}
              \cup {Some(clean_text(c.text, r1)) :
                      c \in {extracted[j], ocr_result[j]}, r1 \in BOOLEAN}

\* a step that is not a step of invocation j leaves the result of j alone
OthersUntouched == \A j \in Invocations : pc'[j] = pc[j] => result'[j] = result[j]

\* C27: the content, metadata and errors of the result of one invocation
\* hold only what that invocation put there, and no step of another
\* invocation, concurrent or earlier, or of a worker changes them.
C27_NoSharedResultState ==
    /\ [](\A j \in Invocations : OwnEntries(j))
    /\ [][OthersUntouched]_vars

\* invocation 1 returned with an error and no metadata, invocation 2
\* completed with the Tika metadata and a text quality and no error
C27_Witness ==
    /\ Returned(1)
    /\ result[1].errors # EmptyDict
    /\ result[1].metadata = EmptyDict
    /\ Returned(2)
    /\ result[2].stage = COMPLETED
    /\ DOMAIN result[2].metadata = MetaKeys \cup {"text_quality"}
    /\ result[2].errors = EmptyDict

\* the invocations that have been called
Called == {i \in Invocations : pc[i] # "idle"}

EnteringCleaning(i) == IF Truthy(extracted[i]) THEN extracted[i] ELSE ocr_result[i]

Completed(i) == Returned(i) /\ result[i].stage = COMPLETED

C30_ErrorsIffNotCompleted ==
    \A i \in Invocations :
        Returned(i) =>
            /\ Cardinality(DOMAIN result[i].errors) <= 1
            /\ result[i].errors = EmptyDict <=> result[i].stage = COMPLETED

\* a result that stopped at the OCR stage with its one error
C30_Witness ==
    /\ Returned(1)
    /\ result[1].stage = OCR
    /\ DOMAIN result[1].errors = {OCR}

\* the statuses a response ends in
TerminalStatus == {"completed", "failed"}

\* one step as the response of every work item sees it: the status leaves
\* queued for a terminal status and nothing else, and the two maps are
\* written only at status queued
ResponseStep ==
    \A t \in 1..Len(tasks) :
        LET before == tasks[t].response
            after == tasks'[t].response
        IN  /\ after.status # before.status =>
                  before.status = "queued" /\ after.status \in TerminalStatus
            /\ (after.storage_locations # before.storage_locations
                  \/ after.presigned_urls # before.presigned_urls) =>
                  before.status = "queued" /\ after.status = "queued"

\* C31: the status of a response changes once, from queued to completed or
\* to failed, and never again, and storage_locations and presigned_urls are
\* written only while the status is queued.
C31_StatusChangesOnce ==
    /\ [][ResponseStep]_vars
    /\ \A t \in TaskIds :
          Submitted(t) ~> (Submitted(t) /\ tasks[t].response.status \in TerminalStatus)

\* a response that went from queued to completed after its maps were written
C31_Witness ==
    \E t \in Finished :
        /\ tasks[t].response.status = "completed"
        /\ tasks[t].response.storage_locations # EmptyDict
        /\ tasks[t].response.presigned_urls # EmptyDict

\* a step of the worker threads: the work items change, no invocation moves
WorkerStep == tasks' # tasks /\ pc' = pc

\* C32: errors has the key ingestion only when executor.submit itself
\* raised, so that no work item exists for the invocation, and no step of a
\* worker thread, whatever the persistence ends in, changes a result.
C32_PersistenceNeverInResult ==
    /\ [](\A i \in Invocations :
            INGESTION \in DOMAIN result[i].errors =>
                /\ executor.shutdown
                /\ calls[i].raised = INGESTION
                /\ \A t \in 1..Len(tasks) : tasks[t].owner # i)
    /\ [][WorkerStep => result' = result]_vars

\* the persistence of the file failed and its result is at Completed with
\* no error
C32_Witness ==
    /\ Completed(1)
    /\ result[1].errors = EmptyDict
    /\ \E t \in Finished : tasks[t].owner = 1 /\ tasks[t].response.status = "failed"

\* C33: a result at Completed with empty content comes from an invocation
\* in which the OCR service was called.
C33_EmptyContentTriedOCR ==
    \A i \in Invocations :
        (Completed(i) /\ ~Truthy(result[i].content)) => calls[i].ocr > 0

\* the URL and the storage location of `backend` in `response` name the
\* same stored object
SameObject(response, backend) ==
    response.presigned_urls[backend].id = response.storage_locations[backend].id

Rotations == {k \in 1..Len(auth_log) :
                 auth_log[k].op = "refresh" /\ auth_log[k].status_code = 200}

\* C35: a refresh that succeeds returns a refresh token other than the one
\* it consumed, and the consumed one is rejected by every later refresh.
C35_OldRefreshTokenRejected ==
    \A k \in Rotations :
        /\ auth_log[k].refresh_token # auth_log[k].token
        /\ \A l \in (k + 1)..Len(auth_log) :
              (auth_log[l].op = "refresh" /\ auth_log[l].token = auth_log[k].token)
                  => auth_log[l].status_code # 200

\* C36: JWTBearer accepts no token that was issued as a refresh token.
C36_BearerRejectsRefreshTokens ==
    \A k \in 1..Len(auth_log) :
        (auth_log[k].op = "bearer" /\ auth_log[k].status_code = 200)
            => auth_log[k].token.type # "refresh"

\* the request passes the four checks
Valid(request) ==
    /\ request.filename # ""
    /\ FileSize(request) <= MAX_FILE_SIZE
    /\ MimeAllowed(ContentTypeOf(request))
    /\ ~MetadataInvalid(request)

\* the status of the first check, in the order filename, size, content
\* type, metadata, that the request fails
FirstFailure(request) ==
    IF request.filename = "" THEN 400
    ELSE IF FileSize(request) > MAX_FILE_SIZE THEN 413
    ELSE IF ~MimeAllowed(ContentTypeOf(request)) THEN 415
    ELSE 400

\* process_file was scheduled or called
ReachedPipeline == upload.background_tasks # <<>> \/ \E i \in Invocations : pc[i] # "idle"

\* C37: the upload route schedules the pipeline at most once, only for a
\* request that passes the checks of the filename, the size, the content
\* type and the metadata, which reject in this order; a rejected request
\* never reaches process_file.
C37_ScheduledOnceAfterValidation ==
    /\ Len(upload.background_tasks) <= 1
    /\ Cardinality({i \in Invocations : pc[i] # "idle"}) <= Len(upload.background_tasks)
    /\ ReachedPipeline => Valid(upload.request) /\ upload.pc = "responded"
    /\ upload.pc = "rejected" =>
          /\ ~Valid(upload.request)
          /\ upload.status_code = FirstFailure(upload.request)
          /\ ~ReachedPipeline

\* a file of exactly 100 MB with metadata that parses was answered, and its
\* one background task has called process_file
C37_Witness ==
    /\ upload.pc = "responded"
    /\ upload.request.size = MAX_FILE_SIZE
    /\ upload.request.metadata.text = "{}"
    /\ Len(upload.background_tasks) = 1
    /\ pc[1] = "ingestion"
    /\ args[1].file_name = upload.request.filename

\* what the patterns of the allow-list cover: "image/*" every type that
\* begins with "image/", and so for the other pattern with a star; a
\* pattern without star the type it spells
Covered(content_type) ==
    \E k \in 1..Len(ALLOWED_MIME_TYPES) :
        LET pattern == ALLOWED_MIME_TYPES[k]
        IN  IF pattern[Len(pattern)] = "*"
            THEN StartsWith(content_type, SubSeq(pattern, 1, Len(pattern) - 1))
            ELSE content_type = pattern

\* the handler has come to the check of the content type
TypeChecked ==
    /\ upload.pc \in {"rejected", "reading", "responded"}
    /\ upload.request.filename # ""
    /\ FileSize(upload.request) <= MAX_FILE_SIZE

\* C38: the check of the content type passes every type the allow-list
\* patterns cover and rejects every other type with 415.
C38_AllowListPatternsAccepted ==
    TypeChecked =>
        (upload.status_code = 415 <=> ~Covered(ContentTypeOf(upload.request)))

====
